---- MODULE Spec2Model ----
(***************************************************************************)
(* bytechomp/data_descriptor.py: build_data_description derives a          *)
(* description (an OrderedDict of BasicParsingElement, list and nested     *)
(* OrderedDict objects) from a dataclass type; build_data_pattern flattens *)
(* a description into a struct format string.                              *)
(*                                                                         *)
(* Python objects live in a heap (a sequence of objects, a reference is an *)
(* index), so that `[x] * length` stores one object under several slots.   *)
(* Format strings and messages are TLA+ strings built with \o and ToString.*)
(***************************************************************************)
EXTENDS Integers, Sequences, FiniteSets, TLC

(***************************************************************************)
(* Bounds of the inputs.                                                   *)
(***************************************************************************)
\* largest integer used as the length argument of an Annotated type
MaxCount == 2
\* largest number of fields of the dataclass handed to the builder
MaxFields == 2
\* deepest nesting of dataclasses inside the dataclass handed to the builder
MaxDepth == 2

(***************************************************************************)
(* Declared types (what field.type holds).  One record shape for all:      *)
(*   kind  "elem"       an entry of bytechomp.datatypes (U8, F32, ...)     *)
(*         "dataclass"  a dataclass; flds are its fields                   *)
(*         "Annotated"  typing.Annotated; get_args = targs \o meta         *)
(*         "list"       list[...] / typing.List; get_args = targs          *)
(*         "builtin"    a plain class: str, bytes, list, int               *)
(***************************************************************************)
Elem(n) == [kind |-> "elem", name |-> n, targs |-> <<>>, meta |-> <<>>, flds |-> <<>>]
Builtin(n) == [kind |-> "builtin", name |-> n, targs |-> <<>>, meta |-> <<>>, flds |-> <<>>]
Dataclass(n, fs) == [kind |-> "dataclass", name |-> n, targs |-> <<>>, meta |-> <<>>, flds |-> fs]
ListOf(ts) == [kind |-> "list", name |-> "list", targs |-> ts, meta |-> <<>>, flds |-> <<>>]
AnnotatedT(t, ms) == [kind |-> "Annotated", name |-> "Annotated", targs |-> <<t>>, meta |-> ms, flds |-> <<>>]

\* a metadata argument of Annotated: the Python class of the value and the value
Meta(ty, v) == [ty |-> ty, val |-> v]
IntMeta(n) == Meta("int", n)

\* dataclasses.MISSING, and a declared value
MISSING == [tag |-> "MISSING", v |-> 0]
Value(v) == [tag |-> "value", v |-> v]
None == [tag |-> "None", v |-> 0]

\* dataclasses.Field: name, type, default, default_factory
Field(n, t, d, df) == [name |-> n, type |-> t, default |-> d, default_factory |-> df]

(***************************************************************************)
(* bytechomp.datatypes: the registry of elementary types.                  *)
(***************************************************************************)
ELEMENTARY_TYPE_LIST == {Elem("U8"), Elem("U16"), Elem("U32"), Elem("U64"),
                         Elem("I8"), Elem("I16"), Elem("I32"), Elem("I64"),
                         Elem("F32"), Elem("F64")}

TYPE_TO_TAG(t) ==
    CASE t.name = "U8" -> "B" [] t.name = "U16" -> "H" [] t.name = "U32" -> "I"
      [] t.name = "U64" -> "Q" [] t.name = "I8" -> "b" [] t.name = "I16" -> "h"
      [] t.name = "I32" -> "i" [] t.name = "I64" -> "q" [] t.name = "F32" -> "f"
      [] t.name = "F64" -> "d"

TYPE_TO_LENGTH(t) ==
    CASE t.name \in {"U8", "I8"} -> 1 [] t.name \in {"U16", "I16"} -> 2
      [] t.name \in {"U32", "I32", "F32"} -> 4 [] t.name \in {"U64", "I64", "F64"} -> 8

TYPE_TO_PYTYPE(t) == IF t.name \in {"F32", "F64"} THEN "float" ELSE "int"

(***************************************************************************)
(* Python objects.  One record shape for the three classes of a            *)
(* description: BasicParsingElement, list, OrderedDict.                     *)
(***************************************************************************)
BasicParsingElement(parsing_type, python_type, parser_tag, length, default_value) ==
    [cls |-> "BasicParsingElement", parsing_type |-> parsing_type,
     python_type |-> python_type, parser_tag |-> parser_tag, length |-> length,
     default_value |-> default_value, raw_data |-> <<>>, parsed_value |-> None,
     items |-> <<>>, entries |-> <<>>]

ListObj(items) ==
    [cls |-> "list", parsing_type |-> "", python_type |-> "", parser_tag |-> "",
     length |-> 0, default_value |-> None, raw_data |-> <<>>, parsed_value |-> None,
     items |-> items, entries |-> <<>>]

OrderedDictObj(entries) ==
    [cls |-> "OrderedDict", parsing_type |-> "", python_type |-> "", parser_tag |-> "",
     length |-> 0, default_value |-> None, raw_data |-> <<>>, parsed_value |-> None,
     items |-> <<>>, entries |-> entries]

\* a value stored under a key: a reference to a heap object, or a class
ObjVal(r) == [ref |-> r, type |-> <<>>]
TypeVal(t) == [ref |-> 0, type |-> <<t>>]

\* the key of the marker entry
STRUCT_TYPE_KEY == "__struct_type__"

\* d[key] = val on an OrderedDict: a present key keeps its position
OdSet(entries, key, val) ==
    IF \E i \in DOMAIN entries : entries[i].key = key
    THEN [i \in DOMAIN entries |->
            IF entries[i].key = key THEN [key |-> key, val |-> val] ELSE entries[i]]
    ELSE Append(entries, [key |-> key, val |-> val])

\* object_description[field.name] = <object r>, on the OrderedDict at od
SetItem(h, od, key, r) ==
    [h EXCEPT ![od] = OrderedDictObj(OdSet(h[od].entries, key, ObjVal(r)))]

(***************************************************************************)
(* build_data_description                                                  *)
(***************************************************************************)
\* a returned description: the heap holding it and the reference to its root
Ok(h, r) == [ok |-> TRUE, heap |-> h, ref |-> r, msg |-> <<>>, field |-> ""]
\* raise Exception(msg) while handling field: msg is the f-string, its literal
\* pieces and its interpolated values in order
Raise(msg, field) == [ok |-> FALSE, heap |-> <<>>, ref |-> 0, msg |-> msg, field |-> field.name]

\* None if field.default == MISSING else field.default
DefaultValue(field) == IF field.default = MISSING THEN None ELSE field.default

\* the test of line 35: the nested field declares a default
HasDefault(field) == field.default # MISSING

\* a variant of the test of line 49: isinstance(length, int), which a bool passes
NotIntInstance(length) == length.ty \notin {"int", "bool"}

\* the test of line 49
NotInt(length) == length.ty # "int"

\* f"{length}s", f"{length}p"
FixedTag(length, letter) == ToString(length) \o letter

\* a variant of [x] * length: [copy(x) for _ in range(length)], a new object per slot
ListTimesCopies(h, ref, length) ==
    LET n == IF length > 0 THEN length ELSE 0
        hc == h \o [i \in 1..n |-> h[ref]]
    IN Append(hc, ListObj([i \in 1..n |-> Len(h) + i]))

\* [x] * length, x the object at ref: a new list whose slots all hold ref
ListTimes(h, ref, length) ==
    Append(h, ListObj([i \in 1..(IF length > 0 THEN length ELSE 0) |-> ref]))

is_dataclass(t) == t.kind = "dataclass"

RECURSIVE build_data_description(_, _), BuildFields(_, _, _, _), BuildField(_, _, _)

\* the body of the loop, for one field; od is object_description
BuildField(h, od, field) ==
    IF field.type \in ELEMENTARY_TYPE_LIST THEN
        LET h1 == Append(h, BasicParsingElement(field.type.name, TYPE_TO_PYTYPE(field.type),
                              TYPE_TO_TAG(field.type), TYPE_TO_LENGTH(field.type),
                              DefaultValue(field)))
        IN Ok(SetItem(h1, od, field.name, Len(h1)), od)
    ELSE IF is_dataclass(field.type) THEN
        IF HasDefault(field)
        THEN Raise(<<"cannot have default value on nested types (field: ", field.name, ")">>, field)
        ELSE LET r == build_data_description(h, field.type)
             IN IF r.ok THEN Ok(SetItem(r.heap, od, field.name, r.ref), od) ELSE r
    ELSE IF field.type.kind = "Annotated" THEN
        IF Len(field.type.targs) + Len(field.type.meta) # 2
        THEN Raise(<<"annotated value should only have two arguments (field: ", field.name, ")">>, field)
        ELSE
        LET arg_type == field.type.targs[1]
            length == field.type.meta[1]
        IN
        IF NotInt(length)
        THEN Raise(<<"second annotated argument must be an integer to denote length">>, field)
        ELSE IF arg_type = Builtin("str") THEN
            LET h1 == Append(h, BasicParsingElement("str", "str", FixedTag(length.val, "s"),
                                  length.val, DefaultValue(field)))
            IN Ok(SetItem(h1, od, field.name, Len(h1)), od)
        ELSE IF arg_type = Builtin("bytes") THEN
            LET h1 == Append(h, BasicParsingElement("bytes", "bytes", FixedTag(length.val, "p"),
                                  length.val, DefaultValue(field)))
            IN Ok(SetItem(h1, od, field.name, Len(h1)), od)
        ELSE IF arg_type.kind = "list" THEN
            LET list_type_args == arg_type.targs IN
            IF Len(list_type_args) # 1
            THEN Raise(<<"list must contain only one kind of data type (field: ", field.name, ")">>, field)
            ELSE
            LET list_type == list_type_args[1] IN
            IF list_type \in ELEMENTARY_TYPE_LIST THEN
                LET h1 == Append(h, BasicParsingElement(list_type.name, TYPE_TO_PYTYPE(list_type),
                                      TYPE_TO_TAG(list_type), TYPE_TO_LENGTH(list_type), None))
                    h2 == ListTimes(h1, Len(h1), length.val)
                IN Ok(SetItem(h2, od, field.name, Len(h2)), od)
            ELSE IF is_dataclass(list_type) THEN
                LET r == build_data_description(h, list_type) IN
                IF r.ok
                THEN LET h2 == ListTimes(r.heap, r.ref, length.val)
                     IN Ok(SetItem(h2, od, field.name, Len(h2)), od)
                ELSE r
            ELSE Raise(<<"unsupported list type: ", list_type.name, " (field: ", field.name, ")">>, field)
        ELSE Raise(<<"unsupported annotated type: ", arg_type.name, " (field: ", field.name, ")">>, field)
    ELSE IF field.type \in {Builtin("list"), Builtin("bytes"), Builtin("str")} THEN
        Raise(<<"cannot have unannotated list, string, or bytes type (length required, field: ",
                field.name, ")">>, field)
    ELSE Raise(<<"unsupported data type (", field.type.name, ") on field ", field.name>>, field)

\* for field in fields(datatype), from the i-th field on
BuildFields(h, od, fs, i) ==
    IF i > Len(fs) THEN Ok(h, od)
    ELSE LET r == BuildField(h, od, fs[i])
         IN IF r.ok THEN BuildFields(r.heap, od, fs, i + 1) ELSE r

build_data_description(h, datatype) ==
    LET h1 == Append(h, OrderedDictObj(<<[key |-> STRUCT_TYPE_KEY, val |-> TypeVal(datatype)]>>))
    IN BuildFields(h1, Len(h1), datatype.flds, 1)

(***************************************************************************)
(* build_data_pattern                                                      *)
(***************************************************************************)
\* a returned pattern, or the Exception raised
Pat(s) == [ok |-> TRUE, pattern |-> s, msg |-> ""]
PatRaise(m) == [ok |-> FALSE, pattern |-> "", msg |-> m]

\* the class of a stored value
ClassOf(h, val) == IF val.ref = 0 THEN "type" ELSE h[val.ref].cls

\* a variant of the test of line 122: the marker entry is not skipped
NeverMarker(name) == FALSE

\* the test of line 122
IsMarker(name) == name = STRUCT_TYPE_KEY

\* a variant of the tag of an element: only an element not yet unpacked into adds its tag
LeafTagUnparsed(element) == IF element.raw_data = <<>> THEN element.parser_tag ELSE ""

\* what a BasicParsingElement adds to the pattern
LeafTag(element) == element.parser_tag

RECURSIVE build_data_pattern(_, _), PatternItems(_, _, _, _), PatternList(_, _, _, _)

\* for sub_element in root_element, from the j-th on; acc is pattern so far
PatternList(h, items, j, acc) ==
    IF j > Len(items) THEN Pat(acc)
    ELSE LET sub_element == h[items[j]] IN
         IF sub_element.cls = "BasicParsingElement"
         THEN PatternList(h, items, j + 1, acc \o LeafTag(sub_element))
         ELSE IF sub_element.cls = "OrderedDict"
         THEN LET r == build_data_pattern(h, items[j])
              IN IF r.ok THEN PatternList(h, items, j + 1, acc \o r.pattern) ELSE r
         ELSE PatRaise("invalid list type found")

\* for name, root_element in description.items(), from the i-th on
PatternItems(h, entries, i, acc) ==
    IF i > Len(entries) THEN Pat(acc)
    ELSE LET name == entries[i].key
             cls == ClassOf(h, entries[i].val)
         IN
         IF IsMarker(name) THEN PatternItems(h, entries, i + 1, acc)
         ELSE IF cls = "BasicParsingElement"
         THEN PatternItems(h, entries, i + 1, acc \o LeafTag(h[entries[i].val.ref]))
         ELSE IF cls = "list"
         THEN LET r == PatternList(h, h[entries[i].val.ref].items, 1, acc)
              IN IF r.ok THEN PatternItems(h, entries, i + 1, r.pattern) ELSE r
         ELSE IF cls = "OrderedDict"
         THEN LET r == build_data_pattern(h, entries[i].val.ref)
              IN IF r.ok THEN PatternItems(h, entries, i + 1, acc \o r.pattern) ELSE r
         ELSE PatRaise("invalid element type found")

build_data_pattern(h, description) == PatternItems(h, h[description].entries, 1, "")

(***************************************************************************)
(* Reading a description: the objects an unpack step reaches.              *)
(***************************************************************************)
RECURSIVE LeafRefs(_, _), LeafRefsOfEntries(_, _, _), LeafRefsOfItems(_, _, _)

\* the BasicParsingElement objects under the object at ref, in stored order
LeafRefs(h, ref) ==
    IF h[ref].cls = "BasicParsingElement" THEN <<ref>>
    ELSE IF h[ref].cls = "list" THEN LeafRefsOfItems(h, h[ref].items, 1)
    ELSE LeafRefsOfEntries(h, h[ref].entries, 1)

LeafRefsOfItems(h, items, j) ==
    IF j > Len(items) THEN <<>>
    ELSE LeafRefs(h, items[j]) \o LeafRefsOfItems(h, items, j + 1)

LeafRefsOfEntries(h, entries, i) ==
    IF i > Len(entries) THEN <<>>
    ELSE (IF entries[i].val.ref = 0 THEN <<>> ELSE LeafRefs(h, entries[i].val.ref))
         \o LeafRefsOfEntries(h, entries, i + 1)

RECURSIVE Blocks(_, _)
\* the list objects (the repeated blocks) under the object at ref
Blocks(h, ref) ==
    IF h[ref].cls = "BasicParsingElement" THEN {}
    ELSE IF h[ref].cls = "list"
    THEN {ref} \cup UNION {Blocks(h, h[ref].items[j]) : j \in DOMAIN h[ref].items}
    ELSE UNION {Blocks(h, h[ref].entries[i].val.ref) :
                  i \in {n \in DOMAIN h[ref].entries : h[ref].entries[n].val.ref # 0}}

\* an unpack step stores the raw bytes and the decoded value in an element
StoreParsed(element, v) == [element EXCEPT !.raw_data = <<v>>, !.parsed_value = Value(v)]

\* what is read back from an element
Scratch(element) == <<element.raw_data, element.parsed_value>>

(***************************************************************************)
(* The inputs: declared types handed to build_data_description.            *)
(***************************************************************************)
Lengths == -1..MaxCount
ScratchVals == {1, 2}

Plain(n, t) == Field(n, t, MISSING, MISSING)
Factory == [tag |-> "factory", v |-> 0]

\* dataclasses without nested dataclasses
LeafStructs ==
    { Dataclass("Point", <<Plain("x", Elem("F32")), Plain("y", Elem("F32"))>>),
      Dataclass("Tagged", <<Plain(STRUCT_TYPE_KEY, Elem("U8"))>>),
      Dataclass("Named", <<Field("id", Elem("U16"), Value(7), MISSING),
                           Plain("name", AnnotatedT(Builtin("str"), <<IntMeta(MaxCount)>>))>>),
      Dataclass("Bare", <<Plain("s", Builtin("str"))>>) }

\* dataclasses holding one nested dataclass s: as a field, as a repeated
\* block, and as a field with a default
Wraps(s) ==
    { Dataclass("Holder", <<Plain("inner", s)>>),
      Dataclass("Block", <<Plain("items", AnnotatedT(ListOf(<<s>>), <<IntMeta(MaxCount)>>))>>),
      Dataclass("Defaulted", <<Field("inner", s, Value(7), MISSING)>>) }

RECURSIVE Structs(_)
\* the dataclasses nesting at most d - 1 levels of dataclasses
Structs(d) ==
    IF d <= 0 THEN {}
    ELSE IF d = 1 THEN LeafStructs
    ELSE Structs(d - 1) \cup UNION {Wraps(s) : s \in Structs(d - 1)}

\* a field declaration less its name
Shape(t, d, df) == [type |-> t, default |-> d, default_factory |-> df]

GoodShapes ==
    {Shape(Elem(n), d, MISSING) : n \in {"U8", "F32"}, d \in {MISSING, Value(7)}}
    \cup {Shape(AnnotatedT(Builtin(b), <<IntMeta(n)>>), MISSING, MISSING) :
            b \in {"str", "bytes"}, n \in Lengths}
    \cup {Shape(AnnotatedT(Builtin("str"), <<IntMeta(MaxCount)>>), Value(7), MISSING)}
    \cup {Shape(AnnotatedT(ListOf(<<Elem("U8")>>), <<IntMeta(n)>>), MISSING, MISSING) : n \in Lengths}

NestedShapes ==
    {Shape(s, d[1], d[2]) : s \in Structs(MaxDepth - 1),
        d \in {<<MISSING, MISSING>>, <<Value(7), MISSING>>, <<MISSING, Factory>>}}
    \cup {Shape(AnnotatedT(ListOf(<<s>>), <<IntMeta(n)>>), MISSING, MISSING) :
            s \in Structs(MaxDepth - 1), n \in Lengths}

BadShapes ==
    {Shape(t, MISSING, MISSING) : t \in
        { Builtin("list"), Builtin("bytes"), Builtin("str"), Builtin("int"),
          ListOf(<<Elem("U8")>>),
          AnnotatedT(ListOf(<<>>), <<IntMeta(1)>>),
          AnnotatedT(ListOf(<<Elem("U8"), Elem("F32")>>), <<IntMeta(1)>>),
          AnnotatedT(ListOf(<<Builtin("int")>>), <<IntMeta(1)>>),
          AnnotatedT(Builtin("int"), <<IntMeta(1)>>),
          AnnotatedT(Builtin("list"), <<IntMeta(1)>>),
          AnnotatedT(Builtin("str"), <<IntMeta(1), IntMeta(2)>>) }}
    \cup {Shape(AnnotatedT(b, <<Meta(ty, 0)>>), MISSING, MISSING) :
            b \in {Builtin("str"), ListOf(<<Elem("U8")>>)},
            ty \in {"bool", "float", "str", "NoneType"}}

AllShapes == GoodShapes \cup NestedShapes \cup BadShapes

\* the shapes combined in dataclasses of several fields
CoreShapes ==
    { Shape(Elem("U32"), MISSING, MISSING),
      Shape(AnnotatedT(Builtin("str"), <<IntMeta(MaxCount)>>), MISSING, MISSING),
      Shape(AnnotatedT(ListOf(<<Elem("U8")>>), <<IntMeta(MaxCount)>>), MISSING, MISSING),
      Shape(Dataclass("Point", <<Plain("x", Elem("F32")), Plain("y", Elem("F32"))>>), MISSING, MISSING),
      Shape(AnnotatedT(ListOf(<<Dataclass("Point", <<Plain("x", Elem("F32")), Plain("y", Elem("F32"))>>)>>),
                       <<IntMeta(MaxCount)>>), MISSING, MISSING),
      Shape(Builtin("bytes"), MISSING, MISSING) }

\* the i-th field is named f<i>, but for the m-th, named as the marker key
NameAt(i, m) == IF i = m THEN STRUCT_TYPE_KEY ELSE "f" \o ToString(i)

Declare(shapes, m) ==
    Dataclass("T", [i \in DOMAIN shapes |->
        Field(NameAt(i, m), shapes[i].type, shapes[i].default, shapes[i].default_factory)])

Types ==
    {Declare(<<sh>>, m) : sh \in AllShapes, m \in 0..1}
    \cup UNION {{Declare(shs, m) : shs \in [1..k -> CoreShapes], m \in 0..k} : k \in 2..MaxFields}

\* the declarations whose descriptions are unpacked into: those with a repeated block
BlockShapes ==
    {Shape(AnnotatedT(ListOf(<<t>>), <<IntMeta(n)>>), MISSING, MISSING) :
        t \in {Elem("U8"), Dataclass("Point", <<Plain("x", Elem("F32")), Plain("y", Elem("F32"))>>)},
        n \in Lengths}
    \cup {Shape(AnnotatedT(ListOf(<<s>>), <<IntMeta(MaxCount)>>), MISSING, MISSING) :
            s \in Structs(MaxDepth - 1)}

ParseTypes ==
    {Declare(<<sh>>, m) : sh \in BlockShapes, m \in 0..1}
    \cup {Declare(<<Shape(Elem("U32"), Value(7), MISSING), sh>>, 0) : sh \in BlockShapes}

(***************************************************************************)
(* State                                                                   *)
(***************************************************************************)
VARIABLES
    datatype,   \* the dataclass handed to build_data_description
    pc,         \* "declared", "built" (a description was returned), "failed" (it raised)
    heap,       \* the objects of the returned descriptions
    root,       \* the description returned for datatype (0: none)
    root2,      \* the description returned by a second build (0: none)
    err,        \* the result of the build: the Exception raised and where, when it failed
    compiled,   \* what build_data_pattern gave for root (NotCompiled: not called)
    last        \* the last unpack step: the block, the leaf inside the element, the value

vars == <<datatype, pc, heap, root, root2, err, compiled, last>>

NotCompiled == [ok |-> FALSE, pattern |-> "", msg |-> "not called"]
NoWrite == [block |-> 0, leaf |-> 0, val |-> 0]

\* before the call: a declaration among types, nothing built
Start(types) ==
    /\ datatype \in types
    /\ pc = "declared"
    /\ heap = <<>>
    /\ root = 0
    /\ root2 = 0
    /\ err = Ok(<<>>, 0)
    /\ compiled = NotCompiled
    /\ last = NoWrite

Init == Start(Types)

\* description = build_data_description(datatype)
Build ==
    /\ pc = "declared"
    /\ LET r == build_data_description(<<>>, datatype) IN
         /\ pc' = IF r.ok THEN "built" ELSE "failed"
         /\ heap' = r.heap
         /\ root' = r.ref
         /\ err' = [r EXCEPT !.heap = <<>>]
    /\ UNCHANGED <<datatype, root2, compiled, last>>

\* pattern = build_data_pattern(description)
Compile ==
    /\ pc = "built"
    /\ compiled' = build_data_pattern(heap, root)
    /\ UNCHANGED <<datatype, pc, heap, root, root2, err, last>>

\* the same declaration with other default values on its scalar fields
RECURSIVE OtherDefaults(_)
OtherDefaults(t) ==
    IF t.kind = "dataclass"
    THEN [t EXCEPT !.flds = [i \in DOMAIN t.flds |->
            IF is_dataclass(t.flds[i].type)
            THEN [t.flds[i] EXCEPT !.type = OtherDefaults(t.flds[i].type)]
            ELSE [t.flds[i] EXCEPT !.default = IF @ = MISSING THEN Value(9) ELSE MISSING,
                                   !.type = OtherDefaults(@)]]]
    ELSE IF t.kind \in {"Annotated", "list"}
    THEN [t EXCEPT !.targs = [i \in DOMAIN t.targs |-> OtherDefaults(t.targs[i])]]
    ELSE t

\* a second build_data_description, of the same declaration or of its twin
Rebuild ==
    /\ pc = "built"
    /\ root2 = 0
    /\ \E d \in {datatype, OtherDefaults(datatype)} :
         LET r == build_data_description(heap, d) IN
           /\ r.ok
           /\ heap' = r.heap
           /\ root2' = r.ref
    /\ UNCHANGED <<datatype, pc, root, err, compiled, last>>

\* an unpack step through slot i of block b: stores v in the k-th leaf of the element
Unpack ==
    /\ pc = "built"
    /\ \E b \in Blocks(heap, root) : \E i \in DOMAIN heap[b].items :
       \E k \in DOMAIN LeafRefs(heap, heap[b].items[i]) : \E v \in ScratchVals :
         LET target == LeafRefs(heap, heap[b].items[i])[k] IN
           /\ heap' = [heap EXCEPT ![target] = StoreParsed(@, v)]
           /\ last' = [block |-> b, leaf |-> k, val |-> v]
    /\ UNCHANGED <<datatype, pc, root, root2, err, compiled>>

\* building and compiling, over all the declarations
Next == Build \/ Compile

Spec == Init /\ [][Next]_vars

\* a live description: built, compiled, built again, unpacked into
InitParse == Start(ParseTypes)

NextParse == Build \/ Compile \/ Rebuild \/ Unpack

SpecParse == InitParse /\ [][NextParse]_vars

(***************************************************************************)
(* Helpers of the properties                                               *)
(***************************************************************************)
\* description[key]
Lookup(h, od, key) ==
    h[od].entries[CHOOSE i \in DOMAIN h[od].entries : h[od].entries[i].key = key].val

RECURSIVE ItemsConcat(_, _, _)
\* the tags and sub-patterns of the elements of a repeated block, in element order
ItemsConcat(h, items, j) ==
    IF j > Len(items) THEN ""
    ELSE (IF h[items[j]].cls = "BasicParsingElement" THEN h[items[j]].parser_tag
          ELSE build_data_pattern(h, items[j]).pattern) \o ItemsConcat(h, items, j + 1)

\* what the node stored for one field is expected to add to the pattern
Contribution(h, ref) ==
    IF h[ref].cls = "BasicParsingElement" THEN h[ref].parser_tag
    ELSE IF h[ref].cls = "list" THEN ItemsConcat(h, h[ref].items, 1)
    ELSE build_data_pattern(h, ref).pattern

RECURSIVE FieldConcat(_, _, _, _)
\* the contributions of the declared fields, in declaration order, from the i-th on
FieldConcat(h, od, flds, i) ==
    IF i > Len(flds) THEN ""
    ELSE Contribution(h, Lookup(h, od, flds[i].name).ref) \o FieldConcat(h, od, flds, i + 1)

RECURSIVE Repeat(_, _)
\* s repeated n times
Repeat(s, n) == IF n <= 0 THEN "" ELSE s \o Repeat(s, n - 1)

RECURSIVE SumTagLen(_, _, _)
\* the total length of the tags of the leaves refs[i..]
SumTagLen(h, refs, i) ==
    IF i > Len(refs) THEN 0 ELSE Len(h[refs[i]].parser_tag) + SumTagLen(h, refs, i + 1)

\* a field declared Annotated[List[X], N], N an integer
IsBlockField(f) ==
    /\ f.type.kind = "Annotated"
    /\ Len(f.type.meta) = 1
    /\ f.type.meta[1].ty = "int"
    /\ f.type.targs[1].kind = "list"
    /\ Len(f.type.targs[1].targs) = 1

BlockCount(f) == f.type.meta[1].val
BlockElemType(f) == f.type.targs[1].targs[1]

\* the compiled pattern of one element of a block field: the registry tag of an
\* elementary X, the compiled pattern of a dataclass X
UnitPattern(X) ==
    IF X \in ELEMENTARY_TYPE_LIST THEN TYPE_TO_TAG(X)
    ELSE LET r == build_data_description(<<>>, X) IN build_data_pattern(r.heap, r.ref).pattern

RECURSIVE HasNestedDefault(_)
\* t has, at some depth, a dataclass-typed field declaring a default (value or factory)
HasNestedDefault(t) ==
    \E i \in DOMAIN t.flds :
        LET f == t.flds[i] IN
        \/ is_dataclass(f.type) /\ (f.default # MISSING \/ f.default_factory # MISSING)
        \/ is_dataclass(f.type) /\ HasNestedDefault(f.type)
        \/ IsBlockField(f) /\ is_dataclass(BlockElemType(f)) /\ HasNestedDefault(BlockElemType(f))

\* a field whose type is bare str, bytes or list, or an Annotated that does not
\* carry exactly one type argument and one integer
Unqualified(f) ==
    \/ f.type \in {Builtin("str"), Builtin("bytes"), Builtin("list")}
    \/ f.type.kind = "Annotated" /\ (Len(f.type.meta) # 1 \/ f.type.meta[1].ty # "int")

RECURSIVE HasUnqualified(_)
\* t has such a field, at some depth
HasUnqualified(t) ==
    \E i \in DOMAIN t.flds :
        LET f == t.flds[i] IN
        \/ Unqualified(f)
        \/ is_dataclass(f.type) /\ HasUnqualified(f.type)
        \/ IsBlockField(f) /\ is_dataclass(BlockElemType(f)) /\ HasUnqualified(BlockElemType(f))

\* the pattern of the description at root, as compiled now
PatternNow == build_data_pattern(heap, root)

RECURSIVE SameStructure(_, _, _)
\* the objects at r1 and r2 are descriptions of identical field structure: they
\* differ at most in default values and in the scratch slots
SameStructure(h, r1, r2) ==
    /\ h[r1].cls = h[r2].cls
    /\ h[r1].parsing_type = h[r2].parsing_type
    /\ h[r1].python_type = h[r2].python_type
    /\ h[r1].parser_tag = h[r2].parser_tag
    /\ h[r1].length = h[r2].length
    /\ Len(h[r1].items) = Len(h[r2].items)
    /\ \A j \in DOMAIN h[r1].items : SameStructure(h, h[r1].items[j], h[r2].items[j])
    /\ Len(h[r1].entries) = Len(h[r2].entries)
    /\ \A i \in DOMAIN h[r1].entries :
          /\ h[r1].entries[i].key = h[r2].entries[i].key
          /\ (h[r1].entries[i].val.ref = 0) = (h[r2].entries[i].val.ref = 0)
          /\ h[r1].entries[i].val.ref # 0 =>
                SameStructure(h, h[r1].entries[i].val.ref, h[r2].entries[i].val.ref)

\* the blocks of the descriptions held
BlocksHeld == Blocks(heap, root) \cup (IF root2 = 0 THEN {} ELSE Blocks(heap, root2))

\* what slot j of block b reads back at the k-th leaf of its element
SlotRead(b, j, k) == Scratch(heap[LeafRefs(heap, heap[b].items[j])[k]])

(***************************************************************************)
(* Properties                                                              *)
(***************************************************************************)

\* C1: the pattern of every returned description is the concatenation, in field
\* declaration order, of what is stored for each declared field: the tag of a
\* leaf, the tags and sub-patterns of a block's elements, the pattern of a
\* nested description; nothing else.
C1Claim ==
    pc = "built" => PatternNow = Pat(FieldConcat(heap, root, datatype.flds, 1))

\* C2: every field declared Annotated[List[X], N] gives a block of exactly N
\* elements, and where it is the only field the pattern is the tag (X
\* elementary) or the compiled pattern (X a dataclass) of X, N times.
C2Claim ==
    pc = "built" =>
        \A i \in DOMAIN datatype.flds :
            LET f == datatype.flds[i] IN
            IsBlockField(f) =>
                /\ heap[Lookup(heap, root, f.name).ref].cls = "list"
                /\ Len(heap[Lookup(heap, root, f.name).ref].items) = BlockCount(f)
                /\ Len(datatype.flds) = 1 =>
                     PatternNow = Pat(Repeat(UnitPattern(BlockElemType(f)), BlockCount(f)))

\* C3: build_data_description returns no description for a type that has, at any
\* depth, a dataclass-typed field with a declared default, value or factory.
C3Claim == HasNestedDefault(datatype) => pc # "built"

\* C5: every Exception raised by build_data_description carries a message that
\* includes the name of the field being handled.
C5Claim ==
    pc = "failed" => \E i \in DOMAIN err.msg : err.msg[i] = err.field

\* C6: in every returned description every BasicParsingElement has length > 0
\* and a non-empty parser_tag, and every block has as many elements as the
\* integer of its annotation, which is not negative.
C6Claim ==
    pc = "built" =>
        /\ \A r \in DOMAIN heap :
              heap[r].cls = "BasicParsingElement" =>
                  heap[r].length > 0 /\ heap[r].parser_tag # ""
        /\ \A i \in DOMAIN datatype.flds :
              LET f == datatype.flds[i] IN
              IsBlockField(f) =>
                  /\ BlockCount(f) >= 0
                  /\ Len(heap[Lookup(heap, root, f.name).ref].items) = BlockCount(f)

\* C10: whatever the names of the declared fields, the returned mapping holds the
\* marker entry, with the type as its value, beside one entry per declared
\* field, and every leaf value has its tag in the pattern.
C10Claim ==
    pc = "built" =>
        /\ \E i \in DOMAIN heap[root].entries :
              /\ heap[root].entries[i].key = STRUCT_TYPE_KEY
              /\ heap[root].entries[i].val = TypeVal(datatype)
        /\ Len(heap[root].entries) = Len(datatype.flds) + 1
        /\ Len(PatternNow.pattern) = SumTagLen(heap, LeafRefs(heap, root), 1)

\* C4: build_data_description returns no description for a type that has, at any
\* depth, a field of bare type str, bytes or list, or an Annotated field that
\* does not carry exactly one type argument and one integer (a bool, a float, a
\* string, None are not integers).
C4Rejects == HasUnqualified(datatype) => pc # "built"

\* a bool given as the length was rejected with the message of line 50
C4Witness ==
    /\ pc = "failed"
    /\ \E i \in DOMAIN datatype.flds :
          /\ datatype.flds[i].type.kind = "Annotated"
          /\ datatype.flds[i].type.meta[1].ty = "bool"
    /\ err.msg = <<"second annotated argument must be an integer to denote length">>

C8Total ==
    pc = "built" =>
        /\ PatternNow.ok
        /\ compiled # NotCompiled => compiled.ok

\* a compiled description with a block of elements, a block of nested
\* descriptions and the nested descriptions themselves
C8Witness ==
    /\ pc = "built"
    /\ compiled.ok
    /\ \E b1, b2 \in Blocks(heap, root) :
          /\ Len(heap[b1].items) >= 2
          /\ Len(heap[b2].items) >= 2
          /\ heap[heap[b1].items[1]].cls = "BasicParsingElement"
          /\ heap[heap[b2].items[1]].cls = "OrderedDict"

\* C9: all the slots of a repeated block hold one and the same object, a
\* BasicParsingElement for an elementary X and a nested description for a
\* dataclass X; so every two slots read back the same scratch values, those of
\* the last unpack step made through any slot of the block.
C9SlotsShared ==
    pc = "built" =>
        /\ \A b \in BlocksHeld : \A i, j \in DOMAIN heap[b].items :
              /\ heap[b].items[i] = heap[b].items[j]
              /\ \A k \in DOMAIN LeafRefs(heap, heap[b].items[i]) :
                    SlotRead(b, i, k) = SlotRead(b, j, k)
        /\ \A n \in DOMAIN datatype.flds :
              LET f == datatype.flds[n]
                  b == Lookup(heap, root, f.name).ref
              IN IsBlockField(f) => \A j \in DOMAIN heap[b].items :
                    heap[heap[b].items[j]].cls =
                        IF BlockElemType(f) \in ELEMENTARY_TYPE_LIST
                        THEN "BasicParsingElement" ELSE "OrderedDict"
        /\ last.block # 0 =>
              \A j \in DOMAIN heap[last.block].items :
                  SlotRead(last.block, j, last.leaf) = <<<<last.val>>, Value(last.val)>>

\* a block of at least two nested descriptions, unpacked into more than once
C9Witness ==
    /\ pc = "built"
    /\ last.block # 0
    /\ Len(heap[last.block].items) >= 2
    /\ heap[heap[last.block].items[1]].cls = "OrderedDict"
    /\ \E k \in DOMAIN LeafRefs(heap, heap[last.block].items[2]) :
          /\ k # last.leaf
          /\ SlotRead(last.block, 2, k)[2] \notin {None, Value(last.val)}

====
